---- MODULE Spec2Model ----
(***************************************************************************)
(* Circle-domain FRI folding (circle/src/folding.rs): the circle           *)
(* bit-reversal index map, the bivariate folder, the recursive matrix      *)
(* folder and the single-row folder, over a Mersenne field small enough    *)
(* for exhaustive checking.  The base field is F = GF(2^13 - 1), which     *)
(* like Mersenne31 has p = 3 (mod 4) and a circle group of order p + 1, a  *)
(* power of two.  The extension field EF is F[i]/(i^2 + 1).                *)
(***************************************************************************)
EXTENDS Integers, Sequences, FiniteSets

VARIABLES pc, xs, out, out2, r_in, r_out,
          width, mat, beta, folded, index, log_height, row_out,
          log_n, log_blowup, evals, round,
          beta2, lambda, folded2, folded_mix,
          p2_width, p2_in, p2_x, p2_sum

vars == <<pc, xs, out, out2, r_in, r_out,
          width, mat, beta, folded, index, log_height, row_out,
          log_n, log_blowup, evals, round,
          beta2, lambda, folded2, folded_mix,
          p2_width, p2_in, p2_x, p2_sum>>

bitrevVars == <<xs, out, out2, r_in, r_out>>
foldVars == <<width, mat, beta, folded, index, log_height, row_out>>
convVars == <<log_n, log_blowup, evals, round>>
affVars == <<beta2, lambda, folded2, folded_mix>>
p2Vars == <<p2_width, p2_in, p2_x, p2_sum>>

(***************************************************************************)
(* Bounds of the model.                                                    *)
(***************************************************************************)
\* circle_bitrev_permute is applied to every length 0 .. 2^MaxBits
MaxBits == 4
\* input vectors are [i |-> (m*i + c) % q], m <= MaxStride, c <= MaxOffset
MaxStride == 2
MaxOffset == 1
\* the folders are applied to matrices of every height 0 .. 2^MaxLogHeight
MaxLogHeight == 3
\* sample matrices: entry (r, c) is sample number seed + stride*r + step*c
MaxSeed == 2
MaxRowStride == 1
MaxColStep == 1
\* the folding pipeline runs for log_n in 1..MaxLogN, log_blowup in 0..MaxLogBlowup
MaxLogN == 5
MaxLogBlowup == 2
\* sample polynomials: coefficient vectors number 0 .. MaxCoefSeed
MaxCoefSeed == 2
MaxP2Seed == 13
MaxP2Stride == 1

(***************************************************************************)
(* The base field F and its complex extension.                             *)
(***************************************************************************)
P == 8191
CIRCLE_TWO_ADICITY == 13

Pow2(n) == 2 ^ n

FAdd(a, b) == (a + b) % P
FSub(a, b) == (a + P - b) % P
FMul(a, b) == (a * b) % P
\* halve: x/2 without a multiplication
FHalve(a) == IF a % 2 = 0 THEN a \div 2 ELSE (a + P) \div 2

RECURSIVE FExp(_, _)
FExp(a, e) ==
  IF e = 0 THEN 1
  ELSE LET h == FExp(FMul(a, a), e \div 2)
       IN  IF e % 2 = 1 THEN FMul(a, h) ELSE h

\* inverse(): Fermat's little theorem; inverting zero is a panic
FInverse(a) == FExp(a, P - 2)

\* Complex<F>: <<real, imag>>
real(z) == z[1]
imag(z) == z[2]
conj(z) == <<z[1], (P - z[2]) % P>>
COne == <<1, 0>>
CMul(a, b) == <<FSub(FMul(a[1], b[1]), FMul(a[2], b[2])),
                FAdd(FMul(a[1], b[2]), FMul(a[2], b[1]))>>

\* exp_u64: square and multiply
RECURSIVE exp_u64(_, _)
exp_u64(z, e) ==
  IF e = 0 THEN COne
  ELSE LET h == exp_u64(CMul(z, z), e \div 2)
       IN  IF e % 2 = 1 THEN CMul(z, h) ELSE h

\* exp_power_of_2: k squarings
RECURSIVE exp_power_of_2(_, _)
exp_power_of_2(z, k) == IF k = 0 THEN z ELSE exp_power_of_2(CMul(z, z), k - 1)

\* a generator of the whole circle group {(x, y) : x^2 + y^2 = 1} of F
CircleGenerator == <<2, 181>>

\* the generator of the subgroup of order 2^bits; bits must not exceed the
\* field's circle two-adicity
GeneratorDefined(bits) == bits <= CIRCLE_TWO_ADICITY
circle_two_adic_generator(bits) ==
  exp_power_of_2(CircleGenerator, CIRCLE_TWO_ADICITY - bits)

(***************************************************************************)
(* p3_util helpers.                                                        *)
(***************************************************************************)
IsPowerOfTwo(n) == \E b \in 0..30 : n = Pow2(b)
\* log2_strict_usize panics unless n is a power of two (0 is not)
log2_strict_usize(n) == CHOOSE b \in 0..30 : n = Pow2(b)

Bit(x, i) == (x \div Pow2(i)) % 2

\* reverse the low `bits` bits of x
RECURSIVE reverse_bits_len(_, _)
reverse_bits_len(x, bits) ==
  IF bits = 0 THEN 0
  ELSE (x % 2) * Pow2(bits - 1) + reverse_bits_len(x \div 2, bits - 1)

(***************************************************************************)
(* The circle bit-reversal index map.                                      *)
(***************************************************************************)
\* mutant: mask (1 << (i + 1)) - 1, one bit too wide
FlipLowInclusive(idx, i) ==
  (idx \div Pow2(i + 1)) * Pow2(i + 1) + (Pow2(i + 1) - 1 - (idx % Pow2(i + 1)))

\* idx ^= (1 << i) - 1 : flip the i low bits
FlipLow(idx, i) == (idx \div Pow2(i)) * Pow2(i) + (Pow2(i) - 1 - (idx % Pow2(i)))

\* mutant: the loop run from the high bit down
RECURSIVE BitrevLoopDown(_, _, _)
BitrevLoopDown(idx, i, bits) ==
  IF i >= bits THEN idx
  ELSE LET j == bits - 1 - i
       IN  BitrevLoopDown(IF Bit(idx, j) # 0 THEN FlipLow(idx, j) ELSE idx,
                          i + 1, bits)

\* the loop  for i in 0..bits { if idx & (1 << i) != 0 { idx ^= (1 << i) - 1 } }
RECURSIVE BitrevLoop(_, _, _)
BitrevLoop(idx, i, bits) ==
  IF i >= bits THEN idx
  ELSE BitrevLoop(IF Bit(idx, i) # 0 THEN FlipLow(idx, i) ELSE idx, i + 1, bits)

\* mutant: plain Cooley-Tukey bit reversal, the circle-specific loop left out
circle_bitrev_idx_plain(idx, bits) == reverse_bits_len(idx, bits)

circle_bitrev_idx(idx, bits) == BitrevLoop(reverse_bits_len(idx, bits), 0, bits)

\* mutant: the map applied in the other direction (scatter instead of gather)
circle_bitrev_permute_scatter(v) ==
  LET bits == log2_strict_usize(Len(v))
  IN  [i \in 1..Len(v) |->
         v[(CHOOSE j \in 0..Len(v)-1 : circle_bitrev_idx(j, bits) = i - 1) + 1]]

\* (0..xs.len()).map(|i| xs[circle_bitrev_idx(i, bits)].clone()).collect()
circle_bitrev_permute(v) ==
  LET bits == log2_strict_usize(Len(v))
  IN  [i \in 1..Len(v) |-> v[circle_bitrev_idx(i - 1, bits) + 1]]

\* CircleBitrevPermutation::permute_index
permute_index(r, height) == circle_bitrev_idx(r, log2_strict_usize(height))

(***************************************************************************)
(* The domain model: CircleDomain::standard(log_n) has shift               *)
(* circle_two_adic_generator(log_n + 1) and generator                      *)
(* circle_two_adic_generator(log_n); points() yields shift * generator^k   *)
(* for k = 0 .. 2^log_n - 1, in this order.                                *)
(***************************************************************************)
DomainShift(n) == circle_two_adic_generator(n + 1)
DomainGen(n) == circle_two_adic_generator(n)
DomainPoint(n, k) == CMul(DomainShift(n), exp_u64(DomainGen(n), k))
\* domain.points().take(count)
DomainPoints(n, count) == [k \in 1..count |-> DomainPoint(n, k - 1)]

(***************************************************************************)
(* The extension field EF = F[i]/(i^2 + 1): <<a, b>> stands for a + b*i.   *)
(***************************************************************************)
EFAdd(a, b) == <<FAdd(a[1], b[1]), FAdd(a[2], b[2])>>
EFSub(a, b) == <<FSub(a[1], b[1]), FSub(a[2], b[2])>>
EFMul(a, b) == CMul(a, b)
\* an extension element times a base-field scalar
EFScale(a, t) == <<FMul(a[1], t), FMul(a[2], t)>>
EFHalve(a) == <<FHalve(a[1]), FHalve(a[2])>>

\* the product v[lo] * ... * v[hi], 1 when the range is empty
RECURSIVE RangeProd(_, _, _)
RangeProd(v, lo, hi) ==
  IF lo > hi THEN 1
  ELSE IF lo = hi THEN v[lo]
  ELSE LET mid == (lo + hi) \div 2
       IN  FMul(RangeProd(v, lo, mid), RangeProd(v, mid + 1, hi))

\* batch_multiplicative_inverse: running products, one inversion, walk back.
\* Entry i is the product of the elements before i, times the inverse of
\* the whole product multiplied back by the elements after i.
batch_multiplicative_inverse(v) ==
  LET n == Len(v)
      inv == FInverse(RangeProd(v, 1, n))
  IN  [i \in 1..n |->
         FMul(FMul(inv, RangeProd(v, i + 1, n)), RangeProd(v, 1, i - 1))]

(***************************************************************************)
(* The folders.  A matrix is its width and the sequence of its rows.       *)
(***************************************************************************)
\* row.into_iter().next_tuple().unwrap() panics on a row shorter than 2
FoldDefined(w, m) == w >= 2

\* mutant: the challenge squared
fold_beta_squared(m, b, twiddles) ==
  LET n == IF Len(m) <= Len(twiddles) THEN Len(m) ELSE Len(twiddles)
  IN  [r \in 1..n |->
         LET lo == m[r][1]
             hi == m[r][2]
             t == twiddles[r]
             sum == EFAdd(lo, hi)
             diff == EFScale(EFSub(lo, hi), t)
         IN  EFHalve(EFAdd(sum, EFMul(EFMul(b, b), diff)))]

\* fold: one output per (row, twiddle) pair
fold(m, b, twiddles) ==
  LET n == IF Len(m) <= Len(twiddles) THEN Len(m) ELSE Len(twiddles)
  IN  [r \in 1..n |->
         LET lo == m[r][1]
             hi == m[r][2]
             t == twiddles[r]
             sum == EFAdd(lo, hi)
             diff == EFScale(EFSub(lo, hi), t)
         IN  EFHalve(EFAdd(sum, EFMul(b, diff)))]

\* Field::inverse and batch_multiplicative_inverse fail on a zero
InverseDefined(x) == x # 0
BatchInverseDefined(v) == \A k \in 1..Len(v) : InverseDefined(v[k])

\* mutant: the real coordinates
BivariateCoordsReal(h) ==
  LET pts == DomainPoints(log2_strict_usize(h) + 1, h)
  IN  [k \in 1..h |-> real(pts[k])]

\* fold_bivariate: the coordinates handed to batch_multiplicative_inverse
BivariateCoords(h) ==
  LET pts == DomainPoints(log2_strict_usize(h) + 1, h)
  IN  [k \in 1..h |-> imag(pts[k])]

\* mutant: the twiddles left in the order of the domain
BivariateTwiddlesUnpermuted(h) ==
  batch_multiplicative_inverse(BivariateCoords(h))

\* fold_bivariate: the twiddles handed to fold
BivariateTwiddles(h) ==
  circle_bitrev_permute(batch_multiplicative_inverse(BivariateCoords(h)))

\* CircleFriFolder::fold_matrix: the coordinates handed to
\* batch_multiplicative_inverse
MatrixCoords(h) ==
  LET pts == DomainPoints(log2_strict_usize(h) + 2, h)
  IN  [k \in 1..h |-> real(pts[k])]

\* CircleFriFolder::fold_matrix: the twiddles handed to fold
MatrixTwiddles(h) ==
  circle_bitrev_permute(batch_multiplicative_inverse(MatrixCoords(h)))

\* CircleFriFolder::fold_row: the coordinate inverted
RowCoord(i, lh) ==
  LET shift == circle_two_adic_generator(lh + 3)
      g == circle_two_adic_generator(lh + 2)
      orig_idx == circle_bitrev_idx(i, lh)
  IN  real(CMul(shift, exp_u64(g, orig_idx)))

\* mutant: the width assertion left out
FoldBivariateNoAssert(w, m) ==
  /\ IsPowerOfTwo(Len(m))
  /\ GeneratorDefined(log2_strict_usize(Len(m)) + 2)
  /\ BatchInverseDefined(BivariateCoords(Len(m)))
  /\ FoldDefined(w, m)

\* fold_bivariate returns a value iff none of its assertions fails
FoldBivariateDefined(w, m) ==
  /\ w = 2
  /\ IsPowerOfTwo(Len(m))
  /\ GeneratorDefined(log2_strict_usize(Len(m)) + 2)
  /\ BatchInverseDefined(BivariateCoords(Len(m)))
  /\ FoldDefined(w, m)

\* mutant: twiddles from the real coordinate
fold_bivariate_real(m, b) ==
  LET h == Len(m)
      pts == DomainPoints(log2_strict_usize(h) + 1, h)
      twiddles == batch_multiplicative_inverse([k \in 1..h |-> real(pts[k])])
  IN  fold(m, b, circle_bitrev_permute(twiddles))

fold_bivariate(m, b) == fold(m, b, BivariateTwiddles(Len(m)))

FoldMatrixDefined(w, m) ==
  /\ w = 2
  /\ IsPowerOfTwo(Len(m))
  /\ GeneratorDefined(log2_strict_usize(Len(m)) + 3)
  /\ BatchInverseDefined(MatrixCoords(Len(m)))
  /\ FoldDefined(w, m)

\* mutant: the domain one level up instead of two
fold_matrix_one_up(m, b) ==
  LET h == Len(m)
      pts == DomainPoints(log2_strict_usize(h) + 1, h)
      twiddles == batch_multiplicative_inverse([k \in 1..h |-> real(pts[k])])
  IN  fold(m, b, circle_bitrev_permute(twiddles))

\* CircleFriFolder::fold_matrix
fold_matrix(m, b) == fold(m, b, MatrixTwiddles(Len(m)))

FoldRowDefined(i, lh, ev) ==
  /\ Len(ev) = 2
  /\ GeneratorDefined(lh + 3)
  /\ InverseDefined(RowCoord(i, lh))

\* mutant: the index used as it is, without circle_bitrev_idx
fold_row_natural(i, lh, ev, b) ==
  LET shift == circle_two_adic_generator(lh + 3)
      g == circle_two_adic_generator(lh + 2)
      t == FInverse(real(CMul(shift, exp_u64(g, i))))
      sum == EFAdd(ev[1], ev[2])
      diff == EFScale(EFSub(ev[1], ev[2]), t)
  IN  EFHalve(EFAdd(sum, EFMul(b, diff)))

\* CircleFriFolder::fold_row
fold_row(i, lh, ev, b) ==
  LET t == FInverse(RowCoord(i, lh))
      sum == EFAdd(ev[1], ev[2])
      diff == EFScale(EFSub(ev[1], ev[2]), t)
  IN  EFHalve(EFAdd(sum, EFMul(b, diff)))

\* RowMajorMatrix::new(values, 2): consecutive pairs are the rows
AsRows(v) == [r \in 1..(Len(v) \div 2) |-> <<v[2 * r - 1], v[2 * r]>>]

(***************************************************************************)
(* The KoalaBear field of the Poseidon2 internal layer, one 32-bit lane of *)
(* a packed vector (the sixteen lanes are treated alike).  The sums are    *)
(* kept below 2^31.                                                        *)
(***************************************************************************)
KoalaBearPrime == 2130706433

\* add: lhs + rhs reduced once; lhs canonical, rhs in [0, P]
add(lhs, rhs) ==
  IF lhs >= KoalaBearPrime - rhs THEN lhs - (KoalaBearPrime - rhs) ELSE lhs + rhs

\* sub: lhs - rhs reduced once; lhs canonical, rhs in [0, P]
sub(lhs, rhs) ==
  IF lhs >= rhs THEN lhs - rhs ELSE lhs + (KoalaBearPrime - rhs)

\* halve_avx512: x / 2
halve_avx512(x) ==
  IF x % 2 = 0 THEN x \div 2 ELSE (x \div 2) + ((KoalaBearPrime + 1) \div 2)

\* x / 2^n
RECURSIVE HalveTimes(_, _)
HalveTimes(x, n) == IF n = 0 THEN x ELSE HalveTimes(halve_avx512(x), n - 1)

\* mul_neg_2_exp_neg_n_avx512::<_, N, N_PRIME>: -x / 2^N, in (0, P]
mul_neg_2_exp_neg_n_avx512(x, n) == KoalaBearPrime - HalveTimes(x, n)

\* mul_neg_2_exp_neg_8_avx512::<_, 16>
mul_neg_2_exp_neg_8_avx512(x) == mul_neg_2_exp_neg_n_avx512(x, 8)

\* mul_neg_2_exp_neg_two_adicity_avx512::<_, 24, 7>
mul_neg_2_exp_neg_two_adicity_avx512(x) == mul_neg_2_exp_neg_n_avx512(x, 24)

\* InternalLayerParametersAVX512<16>::diagonal_mul; input[k] of the code is
\* input[k + 1] here
diagonal_mul_16(input) ==
  << input[1],
     add(input[2], input[2]),
     halve_avx512(input[3]),
     add(add(input[4], input[4]), input[4]),
     add(add(input[5], input[5]), add(input[5], input[5])),
     halve_avx512(input[6]),
     add(add(input[7], input[7]), input[7]),
     add(add(input[8], input[8]), add(input[8], input[8])),
     mul_neg_2_exp_neg_8_avx512(input[9]),
     mul_neg_2_exp_neg_8_avx512(input[10]),
     mul_neg_2_exp_neg_n_avx512(input[11], 3),
     mul_neg_2_exp_neg_n_avx512(input[12], 3),
     mul_neg_2_exp_neg_n_avx512(input[13], 4),
     mul_neg_2_exp_neg_two_adicity_avx512(input[14]),
     mul_neg_2_exp_neg_two_adicity_avx512(input[15]) >>

\* mutant: input[12] added to the sum
add_sum_16_slip(input, sum) ==
  [k \in 1..Len(input) |->
     IF k - 1 < 5 THEN add(sum, input[k])
     ELSE IF k - 1 < 8 THEN sub(sum, input[k])
     ELSE IF k - 1 \in {8, 10, 12, 13} THEN sub(sum, input[k])
     ELSE add(sum, input[k])]

\* InternalLayerParametersAVX512<16>::add_sum
add_sum_16(input, sum) ==
  [k \in 1..Len(input) |->
     IF k - 1 < 5 THEN add(sum, input[k])
     ELSE IF k - 1 < 8 THEN sub(sum, input[k])
     ELSE IF k - 1 \in {8, 10, 13} THEN sub(sum, input[k])
     ELSE add(sum, input[k])]

\* InternalLayerParametersAVX512<24>::diagonal_mul
diagonal_mul_24(input) ==
  << input[1],
     add(input[2], input[2]),
     halve_avx512(input[3]),
     add(add(input[4], input[4]), input[4]),
     add(add(input[5], input[5]), add(input[5], input[5])),
     halve_avx512(input[6]),
     add(add(input[7], input[7]), input[7]),
     add(add(input[8], input[8]), add(input[8], input[8])),
     mul_neg_2_exp_neg_8_avx512(input[9]),
     mul_neg_2_exp_neg_8_avx512(input[10]),
     mul_neg_2_exp_neg_n_avx512(input[11], 2),
     mul_neg_2_exp_neg_n_avx512(input[12], 3),
     mul_neg_2_exp_neg_n_avx512(input[13], 3),
     mul_neg_2_exp_neg_n_avx512(input[14], 4),
     mul_neg_2_exp_neg_n_avx512(input[15], 4),
     mul_neg_2_exp_neg_n_avx512(input[16], 5),
     mul_neg_2_exp_neg_n_avx512(input[17], 5),
     mul_neg_2_exp_neg_n_avx512(input[18], 6),
     mul_neg_2_exp_neg_n_avx512(input[19], 6),
     mul_neg_2_exp_neg_n_avx512(input[20], 7),
     mul_neg_2_exp_neg_n_avx512(input[21], 9),
     mul_neg_2_exp_neg_two_adicity_avx512(input[22]),
     mul_neg_2_exp_neg_two_adicity_avx512(input[23]) >>

\* InternalLayerParametersAVX512<24>::add_sum
add_sum_24(input, sum) ==
  [k \in 1..Len(input) |->
     IF k - 1 < 5 THEN add(sum, input[k])
     ELSE IF k - 1 < 8 THEN sub(sum, input[k])
     ELSE IF k - 1 \in {8, 10, 11, 13, 15, 17, 21} THEN sub(sum, input[k])
     ELSE add(sum, input[k])]

(***************************************************************************)
(* Specification SpecBitrev: circle_bitrev_permute and permute_index       *)
(* applied to vectors of every length 0 .. 2^MaxBits.                      *)
(***************************************************************************)
Moduli == {5, 1024}
VecOf(n, m, c, q) == [i \in 1..n |-> (m * (i - 1) + c) % q]
BitrevInputs ==
  {VecOf(n, m, c, q) : n \in 0..Pow2(MaxBits), m \in 0..MaxStride,
                       c \in 0..MaxOffset, q \in Moduli}

BitrevIdle == xs = <<>> /\ out = <<>> /\ out2 = <<>> /\ r_in = 0 /\ r_out = 0
FoldIdle == /\ width = 0 /\ mat = <<>> /\ beta = <<0, 0>> /\ folded = <<>>
            /\ index = 0 /\ log_height = 0 /\ row_out = <<0, 0>>
ConvIdle == log_n = 0 /\ log_blowup = 0 /\ evals = <<>> /\ round = 0
AffIdle == /\ beta2 = <<0, 0>> /\ lambda = <<0, 0>>
           /\ folded2 = <<>> /\ folded_mix = <<>>
P2Idle == p2_width = 0 /\ p2_in = <<>> /\ p2_x = <<>> /\ p2_sum = 0

InitBitrev ==
  /\ pc = "input"
  /\ xs \in BitrevInputs
  /\ out = <<>> /\ out2 = <<>> /\ r_in = 0 /\ r_out = 0
  /\ FoldIdle /\ ConvIdle /\ AffIdle /\ P2Idle

\* circle_bitrev_permute(&xs)
CircleBitrevPermute ==
  /\ pc = "input"
  /\ IF IsPowerOfTwo(Len(xs))
       THEN out' = circle_bitrev_permute(xs) /\ pc' = "permuted"
       ELSE out' = out /\ pc' = "permute_aborted"
  /\ UNCHANGED <<xs, out2, r_in, r_out, foldVars, convVars, affVars, p2Vars>>

\* circle_bitrev_permute(&circle_bitrev_permute(&xs))
PermuteAgain ==
  /\ pc = "permuted"
  /\ out2' = circle_bitrev_permute(out)
  /\ pc' = "twice"
  /\ UNCHANGED <<xs, out, r_in, r_out, foldVars, convVars, affVars, p2Vars>>

\* CircleBitrevPermutation::permute_index(r, height) on a matrix of xs.len() rows
PermuteIndex ==
  /\ pc = "input"
  /\ \E r \in 0..(IF Len(xs) = 0 THEN 0 ELSE Len(xs) - 1) :
       /\ r_in' = r
       /\ IF IsPowerOfTwo(Len(xs))
            THEN r_out' = permute_index(r, Len(xs)) /\ pc' = "indexed"
            ELSE r_out' = r_out /\ pc' = "index_aborted"
  /\ UNCHANGED <<xs, out, out2, foldVars, convVars, affVars, p2Vars>>

NextBitrev == CircleBitrevPermute \/ PermuteAgain \/ PermuteIndex

SpecBitrev == InitBitrev /\ [][NextBitrev]_vars

(***************************************************************************)
(* Specification SpecFold: fold_bivariate, fold_matrix and fold_row on     *)
(* matrices of width 1..3 and every height 0 .. 2^MaxLogHeight.            *)
(***************************************************************************)
EFSamples == << <<0, 0>>, <<1, 0>>, <<5, 7>>, <<8190, 3>>, <<100, 8189>> >>
Betas == { <<0, 0>>, <<1, 0>>, <<1234, 77>> }

\* entry (r, c) of the sample matrix (seed, stride, step)
MatOf(h, w, seed, stride, step) ==
  [r \in 1..h |->
     [c \in 1..w |->
        EFSamples[((seed + stride * (r - 1) + step * (c - 1)) % Len(EFSamples)) + 1]]]

\* the log_height arguments offered to fold_row: the small ones and the two
\* around the largest one the field allows
RowLogHeights ==
  (0..MaxLogHeight) \cup {CIRCLE_TWO_ADICITY - 3, CIRCLE_TWO_ADICITY - 2}

InitFold ==
  /\ pc = "input"
  /\ width \in 1..3
  /\ \E h \in 0..Pow2(MaxLogHeight), seed \in 0..MaxSeed,
        stride \in 0..MaxRowStride, step \in 0..MaxColStep :
       mat = MatOf(h, width, seed, stride, step)
  /\ beta \in Betas
  /\ folded = <<>> /\ index = 0 /\ log_height = 0 /\ row_out = <<0, 0>>
  /\ BitrevIdle /\ ConvIdle /\ AffIdle /\ P2Idle

\* fold_bivariate(evals, beta)
FoldBivariate ==
  /\ pc = "input"
  /\ IF FoldBivariateDefined(width, mat)
       THEN folded' = fold_bivariate(mat, beta) /\ pc' = "bivariate"
       ELSE folded' = folded /\ pc' = "bivariate_aborted"
  /\ UNCHANGED <<width, mat, beta, index, log_height, row_out, bitrevVars, convVars, affVars, p2Vars>>

\* CircleFriFolder::fold_matrix(m, beta)
FoldMatrix ==
  /\ pc = "input"
  /\ IF FoldMatrixDefined(width, mat)
       THEN folded' = fold_matrix(mat, beta) /\ pc' = "matrix"
       ELSE folded' = folded /\ pc' = "matrix_aborted"
  /\ UNCHANGED <<width, mat, beta, index, log_height, row_out, bitrevVars, convVars, affVars, p2Vars>>

\* CircleFriFolder::fold_row(index, log_height, evals, beta): a query of one
\* row of the matrix, before or after the bulk fold of the round
FoldRow ==
  /\ pc \in {"input", "matrix"}
  /\ Len(mat) >= 1
  /\ \E lh \in RowLogHeights :
       \E i \in 0..((IF Pow2(lh) <= Len(mat) THEN Pow2(lh) ELSE Len(mat)) - 1) :
         /\ index' = i
         /\ log_height' = lh
         /\ IF FoldRowDefined(i, lh, mat[i + 1])
              THEN /\ row_out' = fold_row(i, lh, mat[i + 1], beta)
                   /\ pc' = IF pc = "matrix" THEN "matrix_row" ELSE "row"
              ELSE row_out' = row_out /\ pc' = "row_aborted"
  /\ UNCHANGED <<width, mat, beta, folded, bitrevVars, convVars, affVars, p2Vars>>

NextFold == FoldBivariate \/ FoldMatrix \/ FoldRow

SpecFold == InitFold /\ [][NextFold]_vars

(***************************************************************************)
(* Specification SpecAffine: each folder called three times on the same    *)
(* input, with the challenges beta, beta2 and their combination            *)
(* lambda * beta + (1 - lambda) * beta2.                                   *)
(***************************************************************************)
\* triples <<beta, beta2, lambda>>
AffineInputs ==
  { << <<1, 0>>, <<0, 0>>, <<2, 0>> >>,
    << <<1234, 77>>, <<5, 8000>>, <<3, 4>> >>,
    << <<0, 1>>, <<1234, 77>>, <<8190, 1>> >> }

\* lambda * b1 + (1 - lambda) * b2
Combine(l, b1, b2) == EFAdd(EFMul(l, b1), EFMul(EFSub(<<1, 0>>, l), b2))

InitAffine ==
  /\ pc = "aff_input"
  /\ width \in 1..3
  /\ \E h \in 0..Pow2(MaxLogHeight), seed \in 0..MaxSeed,
        stride \in 0..MaxRowStride, step \in 0..MaxColStep :
       mat = MatOf(h, width, seed, stride, step)
  /\ \E t \in AffineInputs : beta = t[1] /\ beta2 = t[2] /\ lambda = t[3]
  /\ folded = <<>> /\ folded2 = <<>> /\ folded_mix = <<>>
  /\ index = 0 /\ log_height = 0 /\ row_out = <<0, 0>>
  /\ BitrevIdle /\ ConvIdle /\ P2Idle

\* fold_bivariate(evals, .) at beta, beta2 and their combination
AffineBivariate ==
  /\ pc = "aff_input"
  /\ IF FoldBivariateDefined(width, mat)
       THEN /\ folded' = fold_bivariate(mat, beta)
            /\ folded2' = fold_bivariate(mat, beta2)
            /\ folded_mix' = fold_bivariate(mat, Combine(lambda, beta, beta2))
            /\ pc' = "aff_bivariate"
       ELSE /\ UNCHANGED <<folded, folded2, folded_mix>>
            /\ pc' = "aff_aborted"
  /\ UNCHANGED <<width, mat, beta, index, log_height, row_out, beta2, lambda,
                 bitrevVars, convVars, p2Vars>>

\* CircleFriFolder::fold_matrix(m, .) at beta, beta2 and their combination
AffineMatrix ==
  /\ pc = "aff_input"
  /\ IF FoldMatrixDefined(width, mat)
       THEN /\ folded' = fold_matrix(mat, beta)
            /\ folded2' = fold_matrix(mat, beta2)
            /\ folded_mix' = fold_matrix(mat, Combine(lambda, beta, beta2))
            /\ pc' = "aff_matrix"
       ELSE /\ UNCHANGED <<folded, folded2, folded_mix>>
            /\ pc' = "aff_aborted"
  /\ UNCHANGED <<width, mat, beta, index, log_height, row_out, beta2, lambda,
                 bitrevVars, convVars, p2Vars>>

\* CircleFriFolder::fold_row(index, log_height, evals, .) at beta, beta2 and
\* their combination; the one value returned is kept as a vector of length 1
AffineRow ==
  /\ pc = "aff_input"
  /\ Len(mat) >= 1
  /\ \E lh \in RowLogHeights :
       \E i \in 0..((IF Pow2(lh) <= Len(mat) THEN Pow2(lh) ELSE Len(mat)) - 1) :
         /\ index' = i
         /\ log_height' = lh
         /\ IF FoldRowDefined(i, lh, mat[i + 1])
              THEN /\ folded' = <<fold_row(i, lh, mat[i + 1], beta)>>
                   /\ folded2' = <<fold_row(i, lh, mat[i + 1], beta2)>>
                   /\ folded_mix' =
                        <<fold_row(i, lh, mat[i + 1], Combine(lambda, beta, beta2))>>
                   /\ pc' = "aff_row"
              ELSE /\ UNCHANGED <<folded, folded2, folded_mix>>
                   /\ pc' = "aff_aborted"
  /\ UNCHANGED <<width, mat, beta, row_out, beta2, lambda,
                 bitrevVars, convVars, p2Vars>>

NextAffine == AffineBivariate \/ AffineMatrix \/ AffineRow

SpecAffine == InitAffine /\ [][NextAffine]_vars

(***************************************************************************)
(* Specification SpecConv: the pipeline of do_test_folding.  The           *)
(* low-degree extension of 2^log_n values is the evaluation, on the        *)
(* standard domain of log-size log_n + log_blowup, of the polynomial with  *)
(* 2^log_n coefficients in the circle-FFT basis                            *)
(*   b_j(x, y) = y^(j_0) * x^(j_1) * pi(x)^(j_2) * pi(pi(x))^(j_3) * ...   *)
(* where pi(x) = 2x^2 - 1 and j_i is bit i of j.                           *)
(***************************************************************************)
\* the product over bits i..n-1 of j, x being pi^(i-1) of the point's real part
RECURSIVE BasisX(_, _, _, _)
BasisX(j, x, i, n) ==
  IF i >= n THEN 1
  ELSE LET rest == BasisX(j, FSub(FMul(2, FMul(x, x)), 1), i + 1, n)
       IN  IF Bit(j, i) = 1 THEN FMul(x, rest) ELSE rest

CfftBasis(j, pt, n) ==
  FMul(IF Bit(j, 0) = 1 THEN imag(pt) ELSE 1, BasisX(j, real(pt), 1, n))

\* f[lo] + ... + f[hi]
RECURSIVE EFSum(_, _, _)
EFSum(f, lo, hi) ==
  IF lo > hi THEN <<0, 0>>
  ELSE IF lo = hi THEN f[lo]
  ELSE LET mid == (lo + hi) \div 2
       IN  EFAdd(EFSum(f, lo, mid), EFSum(f, mid + 1, hi))

\* the value at pt of the polynomial with coefficients coeffs (2^n of them)
EvalPoly(coeffs, pt, n) ==
  EFSum([j \in 1..Len(coeffs) |-> EFScale(coeffs[j], CfftBasis(j - 1, pt, n))],
        1, Len(coeffs))

\* Cfft::lde(evals, standard(n), standard(n + lb)), by the coefficients of the
\* polynomial that interpolates evals
lde(coeffs, n, lb) ==
  LET pts == DomainPoints(n + lb, Pow2(n + lb))
  IN  [k \in 1..Pow2(n + lb) |-> EvalPoly(coeffs, pts[k], n)]

\* sample coefficient vectors: seed 0 is the single monomial of highest
\* degree, the others are dense
CoefOf(n, seed) ==
  [j \in 1..Pow2(n) |->
     IF seed = 0
       THEN (IF j = Pow2(n) THEN <<1, 0>> ELSE <<0, 0>>)
       ELSE <<(1 + 37 * seed + (seed + 3) * j + j * j) % P,
              (101 * seed + 7 * j) % P>>]

ConvBetas == { <<3, 0>>, <<1234, 77>> }

InitConv ==
  /\ pc = "lde"
  /\ log_n \in 1..MaxLogN
  /\ log_blowup \in 0..MaxLogBlowup
  /\ \E seed \in 0..MaxCoefSeed : evals = lde(CoefOf(log_n, seed), log_n, log_blowup)
  /\ round = 0
  /\ BitrevIdle /\ FoldIdle /\ AffIdle /\ P2Idle

\* evals = circle_bitrev_permute(&evals)
ConvPermute ==
  /\ pc = "lde"
  /\ IF IsPowerOfTwo(Len(evals))
       THEN evals' = circle_bitrev_permute(evals) /\ pc' = "conv_permuted"
       ELSE evals' = evals /\ pc' = "aborted"
  /\ UNCHANGED <<log_n, log_blowup, round, bitrevVars, foldVars, affVars, p2Vars>>

\* evals = fold_bivariate(RowMajorMatrix::new(evals, 2), rng.gen()); the loop
\* variable starts at log_blowup
ConvFoldBivariate ==
  /\ pc = "conv_permuted"
  /\ \E b \in ConvBetas :
       IF FoldBivariateDefined(2, AsRows(evals))
         THEN evals' = fold_bivariate(AsRows(evals), b) /\ pc' = "folding"
         ELSE evals' = evals /\ pc' = "aborted"
  /\ round' = log_blowup
  /\ UNCHANGED <<log_n, log_blowup, bitrevVars, foldVars, affVars, p2Vars>>

\* mutant: the loop taken once more, for _ in log_blowup..(log_n + log_blowup)
ConvFoldMatrixOnceMore ==
  /\ pc = "folding"
  /\ round < log_n + log_blowup
  /\ \E b \in ConvBetas :
       IF FoldMatrixDefined(2, AsRows(evals))
         THEN evals' = fold_matrix(AsRows(evals), b) /\ pc' = "folding"
         ELSE evals' = evals /\ pc' = "aborted"
  /\ round' = round + 1
  /\ UNCHANGED <<log_n, log_blowup, bitrevVars, foldVars, affVars, p2Vars>>

\* one turn of  for _ in log_blowup..(log_n + log_blowup - 1)
ConvFoldMatrix ==
  /\ pc = "folding"
  /\ round < log_n + log_blowup - 1
  /\ \E b \in ConvBetas :
       IF FoldMatrixDefined(2, AsRows(evals))
         THEN evals' = fold_matrix(AsRows(evals), b) /\ pc' = "folding"
         ELSE evals' = evals /\ pc' = "aborted"
  /\ round' = round + 1
  /\ UNCHANGED <<log_n, log_blowup, bitrevVars, foldVars, affVars, p2Vars>>

\* the two assertions after the loop
ConvAssert ==
  /\ pc = "folding"
  /\ round >= log_n + log_blowup - 1
  /\ pc' = IF /\ Len(evals) = Pow2(log_blowup)
              /\ \A i \in 1..Len(evals) : evals[i] = evals[1]
             THEN "done" ELSE "failed"
  /\ UNCHANGED <<log_n, log_blowup, evals, round, bitrevVars, foldVars, affVars, p2Vars>>

NextConv == ConvPermute \/ ConvFoldBivariate \/ ConvFoldMatrix \/ ConvAssert

SpecConv == InitConv /\ [][NextConv]_vars

(***************************************************************************)
(* Specification SpecPoseidon: diagonal_mul piped directly into add_sum,   *)
(* for the widths 16 and 24, on canonical inputs.                          *)
(***************************************************************************)
\* canonical field elements: the ends of the range, odd and even values,
\* values with low bits set and clear
KoalaBearSamples ==
  << 0, 1, 2, 3, 2130706432, 2130706431, 1065353216, 1065353217,
     16777216, 16777217, 255, 256, 123456789, 2013265921 >>

P2Input(n, seed, stride) ==
  [k \in 1..n |->
     KoalaBearSamples[((seed + stride * (k - 1)) % Len(KoalaBearSamples)) + 1]]

P2Sums == {0, 1, 2130706432, 1065353217, 987654321}

InitPoseidon ==
  /\ pc = "p2_input"
  /\ p2_width \in {16, 24}
  /\ \E seed \in 0..MaxP2Seed, stride \in 0..MaxP2Stride :
       p2_in = P2Input(p2_width - 1, seed, stride)
  /\ p2_x = p2_in
  /\ p2_sum \in P2Sums
  /\ BitrevIdle /\ FoldIdle /\ ConvIdle /\ AffIdle

\* diagonal_mul(&mut input)
P2DiagonalMul ==
  /\ pc = "p2_input"
  /\ p2_x' = IF p2_width = 16 THEN diagonal_mul_16(p2_x) ELSE diagonal_mul_24(p2_x)
  /\ pc' = "p2_diag"
  /\ UNCHANGED <<p2_width, p2_in, p2_sum, bitrevVars, foldVars, convVars, affVars>>

\* add_sum(&mut input, sum)
P2AddSum ==
  /\ pc = "p2_diag"
  /\ p2_x' = IF p2_width = 16 THEN add_sum_16(p2_x, p2_sum)
                              ELSE add_sum_24(p2_x, p2_sum)
  /\ pc' = "p2_done"
  /\ UNCHANGED <<p2_width, p2_in, p2_sum, bitrevVars, foldVars, convVars, affVars>>

NextPoseidon == P2DiagonalMul \/ P2AddSum

SpecPoseidon == InitPoseidon /\ [][NextPoseidon]_vars

(***************************************************************************)
(* The five harnesses together.                                            *)
(***************************************************************************)
Init == InitBitrev \/ InitFold \/ InitAffine \/ InitConv \/ InitPoseidon

Next == NextBitrev \/ NextFold \/ NextAffine \/ NextConv \/ NextPoseidon

Spec == Init /\ [][Next]_vars

(***************************************************************************)
(* Properties of the circle bit-reversal map, checked under SpecBitrev.    *)
(***************************************************************************)
Iota(n) == [i \in 1..n |-> i - 1]
Count(v, e) == Cardinality({i \in 1..Len(v) : v[i] = e})
Elems(v) == {v[i] : i \in 1..Len(v)}
Bits(v) == log2_strict_usize(Len(v))

\* C2: circle_bitrev_permute is the identity on lengths 1 and 2, maps
\* [0,1,2,3] to [0,3,1,2] and [0,1,2,3,4,5,6,7] to [0,7,3,4,1,6,2,5].
C2_LiteralVectors ==
  pc = "permuted" =>
    /\ (Len(xs) \in {1, 2} => out = xs)
    /\ (xs = <<0, 1, 2, 3>> => out = <<0, 3, 1, 2>>)
    /\ (xs = <<0, 1, 2, 3, 4, 5, 6, 7>> => out = <<0, 7, 3, 4, 1, 6, 2, 5>>)

C2_Witness == pc = "permuted" /\ xs = <<0, 1, 2, 3, 4, 5, 6, 7>>

\* C6: adjacent positions 2i, 2i+1 of a circle-bit-reversed vector hold the
\* entries of natural indices k and 2^bits - 1 - k, and the standard-domain
\* points of these two indices have equal real and opposite imaginary parts.
C6_AdjacentConjugate ==
  (pc = "permuted" /\ Len(xs) >= 2) =>
    LET bits == Bits(xs)
    IN  \A i \in 0..(Pow2(bits - 1) - 1) :
          LET k0 == circle_bitrev_idx(2 * i, bits)
              k1 == circle_bitrev_idx(2 * i + 1, bits)
          IN  /\ k0 + k1 = Pow2(bits) - 1
              /\ out[2 * i + 1] = xs[k0 + 1]
              /\ out[2 * i + 2] = xs[Pow2(bits) - 1 - k0 + 1]
              /\ real(DomainPoint(bits, k0)) = real(DomainPoint(bits, k1))
              /\ imag(DomainPoint(bits, k0)) =
                   FSub(0, imag(DomainPoint(bits, k1)))
              /\ imag(DomainPoint(bits, k0)) # 0

C6_Witness == pc = "permuted" /\ Len(xs) = Pow2(MaxBits) /\ xs = Iota(Len(xs))

\* C7: circle_bitrev_idx(., bits) is a bijection of [0, 2^bits); the permuted
\* vector has the length of xs and the same elements with the same
\* multiplicities; permute_index stays in range; xs is never modified.
C7_State ==
  /\ pc \in {"permuted", "twice"} =>
       /\ {circle_bitrev_idx(i, Bits(xs)) : i \in 0..(Len(xs) - 1)}
            = 0..(Len(xs) - 1)
       /\ Len(out) = Len(xs)
       /\ \A e \in Elems(xs) \cup Elems(out) : Count(out, e) = Count(xs, e)
  /\ pc = "indexed" =>
       /\ r_out \in 0..(Len(xs) - 1)
       /\ r_out = circle_bitrev_idx(r_in, Bits(xs))

\* C7: the state part above holds always, and no step changes xs.
C7_Permutation == [](C7_State) /\ [][xs' = xs]_vars

C7_Witness ==
  /\ pc = "permuted" /\ Len(xs) = Pow2(MaxBits)
  /\ Count(xs, xs[1]) > 1 /\ Cardinality(Elems(xs)) > 1

\* C8: for lengths of 4 or more the map is not an involution: permuting twice
\* does not give back a vector of distinct elements; placing ys[i] at position
\* circle_bitrev_idx(i, bits) does.
InversePlace(ys) ==
  [k \in 1..Len(ys) |->
     ys[(CHOOSE i \in 0..(Len(ys) - 1) : circle_bitrev_idx(i, Bits(ys)) = k - 1) + 1]]

C8_NotSelfInverse ==
  pc = "twice" =>
    /\ InversePlace(out) = xs
    /\ Len(xs) >= 4 =>
         /\ \E i \in 0..(Len(xs) - 1) :
              circle_bitrev_idx(circle_bitrev_idx(i, Bits(xs)), Bits(xs)) # i
         /\ (Cardinality(Elems(xs)) = Len(xs) => out2 # xs)

C8_Witness == pc = "twice" /\ Len(xs) >= 4 /\ xs = Iota(Len(xs)) /\ out2 # xs

\* C9 as stated: the element of natural index idx is stored at position
\* circle_bitrev_idx(idx, bits) of the permuted vector.
C9_NaturalToStorage ==
  pc = "permuted" =>
    \A idx \in 0..(Len(xs) - 1) :
      out[circle_bitrev_idx(idx, Bits(xs)) + 1] = xs[idx + 1]

\* C9 amended: circle_bitrev_idx maps a storage position to the natural index:
\* position i of the permuted vector holds xs[circle_bitrev_idx(i, bits)].
C9_StorageToNatural ==
  pc = "permuted" =>
    \A i \in 0..(Len(xs) - 1) :
      out[i + 1] = xs[circle_bitrev_idx(i, Bits(xs)) + 1]

C9_Witness ==
  /\ pc = "permuted" /\ Len(xs) >= 4 /\ xs = Iota(Len(xs))
  /\ out[circle_bitrev_idx(1, Bits(xs)) + 1] # xs[2]

(***************************************************************************)
(* Properties of the folders, checked under SpecFold.                      *)
(***************************************************************************)
\* n is a power of two: n >= 1 and every divisor of n above 1 is even
PowerOfTwo(n) == n >= 1 /\ \A d \in 2..n : (n % d = 0 => d % 2 = 0)

\* ((lo + hi) + b * (lo - hi) * t) / 2, the division as a multiplication by
\* the inverse of 2
FoldFormula(lo, hi, b, t) ==
  EFScale(EFAdd(EFAdd(lo, hi), EFMul(EFMul(b, EFSub(lo, hi)), <<t, 0>>)),
          FInverse(2))

\* C1: fold_row at (index, log2(height)) on row index of the matrix gives
\* entry index of fold_matrix on the whole matrix, with the same beta.
C1_RowMatrixEquivalence ==
  (pc = "matrix_row" /\ log_height = log2_strict_usize(Len(mat))) =>
    /\ index < Len(folded)
    /\ row_out = folded[index + 1]

C1_Witness ==
  /\ pc = "matrix_row" /\ Len(mat) = Pow2(MaxLogHeight)
  /\ log_height = MaxLogHeight /\ index = Len(mat) - 1
  /\ beta # <<0, 0>> /\ mat[index + 1][1] # mat[index + 1][2]

\* C4: fold_bivariate on a height-2^b matrix returns 2^b entries, entry i
\* being the fold formula with t_i the inverse, taken on its own, of the
\* imaginary coordinate of point circle_bitrev_idx(i, b) of the standard
\* domain of log-size b + 1.
C4_BivariateFormula ==
  pc = "bivariate" =>
    LET b == log2_strict_usize(Len(mat))
    IN  /\ Len(folded) = Len(mat)
        /\ \A i \in 0..(Len(mat) - 1) :
             folded[i + 1] =
               FoldFormula(mat[i + 1][1], mat[i + 1][2], beta,
                           FInverse(imag(DomainPoint(b + 1, circle_bitrev_idx(i, b)))))

C4_Witness ==
  /\ pc = "bivariate" /\ Len(mat) = Pow2(MaxLogHeight)
  /\ beta # <<0, 0>> /\ mat[2][1] # mat[2][2]

\* C5: fold_matrix on a height-2^b matrix returns 2^b entries, entry i being
\* the fold formula with t_i the inverse of the real coordinate of point
\* circle_bitrev_idx(i, b) of the standard domain of log-size b + 2.
C5_MatrixFormula ==
  pc = "matrix" =>
    LET b == log2_strict_usize(Len(mat))
    IN  /\ Len(folded) = Len(mat)
        /\ \A i \in 0..(Len(mat) - 1) :
             /\ circle_bitrev_idx(i, b) < Len(mat)
             /\ folded[i + 1] =
                  FoldFormula(mat[i + 1][1], mat[i + 1][2], beta,
                              FInverse(real(DomainPoint(b + 2, circle_bitrev_idx(i, b)))))

C5_Witness ==
  /\ pc = "matrix" /\ Len(mat) = Pow2(MaxLogHeight)
  /\ beta # <<0, 0>> /\ mat[2][1] # mat[2][2]

\* C14: circle_bitrev_idx(2i, bits + 1) = circle_bitrev_idx(i, bits); hence
\* the twiddle fold_bivariate uses for row i is the inverse of the imaginary
\* coordinate of the domain point of position 2i of the circle-bit-reversed
\* evaluation vector of length 2 * height, the point lo_i was evaluated at,
\* and hi_i was evaluated at its conjugate.
C14_TwiddleAlignment ==
  pc = "bivariate" =>
    LET b == log2_strict_usize(Len(mat))
        twiddles == BivariateTwiddles(Len(mat))
    IN  \A i \in 0..(Len(mat) - 1) :
          LET lo_pt == DomainPoint(b + 1, circle_bitrev_idx(2 * i, b + 1))
              hi_pt == DomainPoint(b + 1, circle_bitrev_idx(2 * i + 1, b + 1))
          IN  /\ circle_bitrev_idx(2 * i, b + 1) = circle_bitrev_idx(i, b)
              /\ FMul(twiddles[i + 1], imag(lo_pt)) = 1
              /\ hi_pt = conj(lo_pt)
              /\ folded[i + 1] =
                   FoldFormula(mat[i + 1][1], mat[i + 1][2], beta,
                               FInverse(imag(lo_pt)))

C14_Witness ==
  /\ pc = "bivariate" /\ Len(mat) = Pow2(MaxLogHeight)
  /\ circle_bitrev_idx(2, MaxLogHeight + 1) # 1
  /\ BivariateTwiddles(Len(mat))[2] # BivariateTwiddles(Len(mat))[3]

\* C15: no twiddle is the inverse of zero: for a height 2^b the imaginary
\* coordinates of the first 2^b points of the standard domain of log-size
\* b + 1 and the real coordinates of the first 2^b points of the standard
\* domain of log-size b + 2 are non-zero, and so is the real coordinate that
\* fold_row inverts, for every index below 2^log_height; no inversion fails.
C15_NoZeroTwiddle ==
  /\ (pc \notin {"row", "matrix_row", "row_aborted"}
        /\ width = 2 /\ PowerOfTwo(Len(mat))) =>
       LET b == log2_strict_usize(Len(mat))
       IN  /\ \A k \in 0..(Len(mat) - 1) :
                /\ imag(DomainPoint(b + 1, k)) # 0
                /\ real(DomainPoint(b + 2, k)) # 0
                /\ BivariateCoords(Len(mat))[k + 1] # 0
                /\ MatrixCoords(Len(mat))[k + 1] # 0
           /\ pc \notin {"bivariate_aborted", "matrix_aborted"}
  /\ (pc \in {"row", "matrix_row", "row_aborted"}
        /\ log_height + 3 <= CIRCLE_TWO_ADICITY) =>
       /\ index < Pow2(log_height)
       /\ RowCoord(index, log_height) # 0
       /\ (Len(mat[index + 1]) = 2 => pc # "row_aborted")

C15_Witness ==
  /\ pc = "matrix_row" /\ Len(mat) = Pow2(MaxLogHeight)
  /\ index = Len(mat) - 1 /\ log_height = CIRCLE_TWO_ADICITY - 3
  /\ RowCoord(index, log_height) # 0

(***************************************************************************)
(* Properties of the folding pipeline, checked under SpecConv.             *)
(***************************************************************************)
\* C3: after the permutation, one fold_bivariate and log_n - 1 fold_matrix
\* rounds with arbitrary challenges, the vector has 2^log_blowup entries, all
\* equal; the assertions of do_test_folding never fail and nothing aborts.
C3_FoldingConvergence ==
  /\ pc \notin {"failed", "aborted"}
  /\ (pc = "folding" /\ round = log_n + log_blowup - 1) =>
       /\ Len(evals) = Pow2(log_blowup)
       /\ \A i \in 1..Len(evals) : evals[i] = evals[1]

C3_Witness ==
  /\ pc = "done" /\ log_n = 5 /\ log_blowup = 2
  /\ Len(evals) = 4 /\ evals[1] # <<0, 0>>

\* the recursive folds (fold_matrix calls) made so far: the loop variable
\* starts at log_blowup
RecursiveFolds == round - log_blowup

\* C12 as stated: the vector has come down to 2^log_blowup values after one
\* bivariate fold and log_n + log_blowup - 2 recursive folds.
C12_FoldCountAsStated ==
  (pc \in {"folding", "done"} /\ log_blowup >= 1 /\ Len(evals) = Pow2(log_blowup))
    => RecursiveFolds = log_n + log_blowup - 2

\* C12 amended: every fold halves the vector, so after the bivariate fold and
\* k recursive folds 2^(log_n + log_blowup - 1 - k) values remain; the loop
\* makes log_n - 1 recursive folds and leaves exactly 2^log_blowup values, for
\* every log_n >= 1 and log_blowup >= 1.
C12_FoldCount ==
  (pc \in {"folding", "done"} /\ log_blowup >= 1) =>
    /\ RecursiveFolds \in 0..(log_n - 1)
    /\ Len(evals) = Pow2(log_n + log_blowup - 1 - RecursiveFolds)
    /\ (pc = "done" \/ round >= log_n + log_blowup - 1) =>
         (RecursiveFolds = log_n - 1 /\ Len(evals) = Pow2(log_blowup))

C12_Witness ==
  /\ pc = "folding" /\ log_n = 5 /\ log_blowup = 2
  /\ RecursiveFolds = 4 /\ Len(evals) = 4

(***************************************************************************)
(* The folders as functions of the challenge, checked under SpecAffine.    *)
(***************************************************************************)
\* (lo + hi) / 2 + b * ((lo - hi) * t) / 2
AffineForm(lo, hi, b, t) ==
  EFAdd(EFScale(EFAdd(lo, hi), FInverse(2)),
        EFMul(b, EFScale(EFScale(EFSub(lo, hi), t), FInverse(2))))

\* the twiddle of output i of the call that led to the present state
AffineTwiddle(i) ==
  LET b == log2_strict_usize(Len(mat))
  IN  CASE pc = "aff_bivariate" ->
             FInverse(imag(DomainPoint(b + 1, circle_bitrev_idx(i, b))))
        [] pc = "aff_matrix" ->
             FInverse(real(DomainPoint(b + 2, circle_bitrev_idx(i, b))))
        [] OTHER ->
             FInverse(real(DomainPoint(log_height + 2,
                                       circle_bitrev_idx(index, log_height))))

\* the row that output i was folded from
AffineSource(i) == IF pc = "aff_row" THEN mat[index + 1] ELSE mat[i + 1]

\* C11: for fold_bivariate, fold_matrix and fold_row, with lo, hi and the
\* twiddle fixed, the output is affine in beta: fold at
\* lambda * beta1 + (1 - lambda) * beta2 equals lambda * fold(beta1) +
\* (1 - lambda) * fold(beta2), and fold(beta) equals
\* (lo + hi) / 2 + beta * ((lo - hi) * t) / 2.
C11_AffineInBeta ==
  pc \in {"aff_bivariate", "aff_matrix", "aff_row"} =>
    /\ Len(folded2) = Len(folded) /\ Len(folded_mix) = Len(folded)
    /\ \A i \in 0..(Len(folded) - 1) :
         /\ folded_mix[i + 1] =
              EFAdd(EFMul(lambda, folded[i + 1]),
                    EFMul(EFSub(<<1, 0>>, lambda), folded2[i + 1]))
         /\ folded[i + 1] =
              AffineForm(AffineSource(i)[1], AffineSource(i)[2], beta,
                         AffineTwiddle(i))
         /\ folded2[i + 1] =
              AffineForm(AffineSource(i)[1], AffineSource(i)[2], beta2,
                         AffineTwiddle(i))

C11_Witness ==
  /\ pc = "aff_matrix" /\ Len(mat) = Pow2(MaxLogHeight)
  /\ lambda = <<3, 4>> /\ mat[2][1] # mat[2][2]
  /\ folded[2] # folded2[2] /\ folded_mix[2] # folded[2]

(***************************************************************************)
(* The Poseidon2 internal layer, checked under SpecPoseidon.               *)
(***************************************************************************)
\* the documented diagonals; the entry <<s, c, k>> stands for s * c / 2^k
Diag16 ==
  << <<-1, 2, 0>>, <<1, 1, 0>>, <<1, 2, 0>>, <<1, 1, 1>>, <<1, 3, 0>>,
     <<1, 4, 0>>, <<-1, 1, 1>>, <<-1, 3, 0>>, <<-1, 4, 0>>, <<1, 1, 8>>,
     <<-1, 1, 8>>, <<1, 1, 3>>, <<-1, 1, 3>>, <<-1, 1, 4>>, <<1, 1, 24>>,
     <<-1, 1, 24>> >>

Diag24 ==
  << <<-1, 2, 0>>, <<1, 1, 0>>, <<1, 2, 0>>, <<1, 1, 1>>, <<1, 3, 0>>,
     <<1, 4, 0>>, <<-1, 1, 1>>, <<-1, 3, 0>>, <<-1, 4, 0>>, <<1, 1, 8>>,
     <<-1, 1, 8>>, <<1, 1, 2>>, <<1, 1, 3>>, <<-1, 1, 3>>, <<1, 1, 4>>,
     <<-1, 1, 4>>, <<1, 1, 5>>, <<-1, 1, 5>>, <<1, 1, 6>>, <<-1, 1, 6>>,
     <<-1, 1, 7>>, <<-1, 1, 9>>, <<1, 1, 24>>, <<-1, 1, 24>> >>

\* a + b and a - b modulo the prime, on canonical a and b
KAdd(a, b) == IF a >= KoalaBearPrime - b THEN a - (KoalaBearPrime - b) ELSE a + b
KSub(a, b) == IF a >= b THEN a - b ELSE a + (KoalaBearPrime - b)

\* c * a by repeated addition, and 2^k * a by repeated doubling
RECURSIVE KTimes(_, _)
KTimes(c, a) == IF c = 0 THEN 0 ELSE KAdd(KTimes(c - 1, a), a)

RECURSIVE KDoubleTimes(_, _)
KDoubleTimes(a, k) == IF k = 0 THEN a ELSE KDoubleTimes(KAdd(a, a), k - 1)

\* y = d * x + sum modulo the prime, for d = s * c / 2^k:
\* 2^k * (y - sum) = s * c * x
IsDiagonalStep(y, d, x, sum) ==
  /\ y \in 0..(KoalaBearPrime - 1)
  /\ KDoubleTimes(KSub(y, sum), d[3]) =
       (IF d[1] = 1 THEN KTimes(d[2], x) ELSE KSub(0, KTimes(d[2], x)))

\* C13: diagonal_mul followed directly by add_sum on canonical inputs sets
\* every element to x[i] = D[i] * x[i] + sum modulo the field prime, x being
\* the state without its first element and D the documented diagonal of the
\* width without its first entry.
C13_DiagonalThenSum ==
  pc = "p2_done" =>
    LET D == Tail(IF p2_width = 16 THEN Diag16 ELSE Diag24)
    IN  /\ Len(p2_x) = p2_width - 1
        /\ \A k \in 1..(p2_width - 1) :
             IsDiagonalStep(p2_x[k], D[k], p2_in[k], p2_sum)

C13_Witness ==
  /\ pc = "p2_done" /\ p2_width = 24 /\ p2_sum = 987654321
  /\ p2_in[21] = 0 /\ p2_in[22] = 1 /\ p2_x[22] # p2_sum

(***************************************************************************)
(* Contract failures, checked under Spec (the harnesses together).         *)
(***************************************************************************)
\* C10: each operation aborts, returning no value, exactly when a
\* precondition is violated: width 2 and a power-of-two height for
\* fold_bivariate and fold_matrix; a 2-element evals slice (and a round size
\* log_height + 3 within the field's circle two-adicity) for fold_row; a
\* power-of-two length for circle_bitrev_permute.
C10_ContractFailures ==
  /\ pc = "bivariate_aborted" =>
       (width # 2 \/ ~PowerOfTwo(Len(mat))) /\ folded = <<>>
  /\ pc = "bivariate" => (width = 2 /\ PowerOfTwo(Len(mat)))
  /\ pc = "matrix_aborted" =>
       (width # 2 \/ ~PowerOfTwo(Len(mat))) /\ folded = <<>>
  /\ pc \in {"matrix", "matrix_row"} => (width = 2 /\ PowerOfTwo(Len(mat)))
  /\ pc = "row_aborted" =>
       /\ Len(mat[index + 1]) # 2 \/ log_height + 3 > CIRCLE_TWO_ADICITY
       /\ row_out = <<0, 0>>
  /\ pc \in {"row", "matrix_row"} =>
       (Len(mat[index + 1]) = 2 /\ log_height + 3 <= CIRCLE_TWO_ADICITY)
  /\ pc = "permute_aborted" => (~PowerOfTwo(Len(xs)) /\ out = <<>>)
  /\ pc \in {"permuted", "twice"} => PowerOfTwo(Len(xs))
  /\ pc # "aborted"

C10_Witness ==
  /\ pc = "matrix_aborted" /\ width = 2 /\ Len(mat) = 6

====
